---- MODULE Spec2Model ----
(***************************************************************************)
(* Haptic-Vision: the capture-recognize-dispatch loop of src/audio.py      *)
(* (OCR + serial sink).  Text is modelled as a sequence of characters,     *)
(* each character a one-element name: ASCII characters stand for           *)
(* themselves, "U+00C9" and "U+00E9" are the code points of the non-ASCII  *)
(* letters E-acute (upper and lower case), "U+0130" is the capital I with  *)
(* dot above and "U+0307" the combining dot above.                         *)
(***************************************************************************)
EXTENDS Integers, Sequences, FiniteSets, TLC

VARIABLES
    pc,            \* position of the script
    ser,           \* "None" or "Serial": the module-level name ser
    ser_is_open,   \* ser.is_open (FALSE while ser is None)
    ser_log,       \* calls made on the serial port object, in order
    camera_index,  \* device index handed to cv2.VideoCapture
    cap_isOpened,  \* cap.isOpened(): the camera handle is held
    ret,           \* result flag of the last cap.read()
    frame,         \* the frame object of the current iteration
    roi,           \* roi_x, roi_y, roi_width, roi_height
    key,           \* cv2.waitKey(1) & 0xFF of the current iteration
    text,          \* raw output of pytesseract.image_to_string
    clean_word,    \* the cleaned first word
    exc,           \* the exception that left the script, "None" if none
    reads,         \* number of cap.read() calls made
    previews,      \* number of live-feed cv2.imshow calls made
    argv,          \* sys.argv[1:], each argument a sequence of characters
    roi_frame,     \* the frame the last crop was cut from
    cam            \* the state of the OCR-only script cam.py, run beside this one

vars == <<pc, ser, ser_is_open, ser_log, camera_index, cap_isOpened, ret,
          frame, roi, key, text, clean_word, exc, reads, previews, argv,
          roi_frame, cam>>

----------------------------------------------------------------------------
(* Bounds of the model *)

MaxReads == 3      \* cap.read() calls in one run of the session
MaxTextLen == 3    \* length of the raw texts enumerated for token extraction
MaxDim == 20       \* frame width/height enumerated for the ROI computation

(* Program constants *)

SPACE_KEY == 32
QUIT_KEY == 113
NO_KEY == 255
FRAME_WIDTH == 640
FRAME_HEIGHT == 480

----------------------------------------------------------------------------
(* Characters: str.isalpha, str.isspace, str.lower, UTF-8 *)

AsciiLower == <<"a","b","c","d","e","f","g","h","i","j","k","l","m",
                "n","o","p","q","r","s","t","u","v","w","x","y","z">>
AsciiUpper == <<"A","B","C","D","E","F","G","H","I","J","K","L","M",
                "N","O","P","Q","R","S","T","U","V","W","X","Y","Z">>

Range(s) == {s[i] : i \in 1..Len(s)}

Whitespace == {" ", "\n", "\t"}

isspace(c) == c \in Whitespace

\* str.isalpha is Unicode-aware: every letter, ASCII or not, is alphabetic.
\* The combining dot above is a mark, not a letter.
isalpha(c) ==
    c \in Range(AsciiLower) \cup Range(AsciiUpper) \cup {"U+00C9", "U+00E9", "U+0130"}

lower_char(c) ==
    IF c \in Range(AsciiUpper)
    THEN AsciiLower[CHOOSE i \in 1..26 : AsciiUpper[i] = c]
    ELSE IF c = "U+00C9" THEN "U+00E9" ELSE c

\* str.lower of one character: U+0130 lowers to two code points, "i" followed
\* by the combining dot above; every other character to one.
lower_of_char(c) == IF c = "U+0130" THEN <<"i", "U+0307">> ELSE <<lower_char(c)>>

RECURSIVE lower(_)
lower(s) == IF s = <<>> THEN <<>> ELSE lower_of_char(Head(s)) \o lower(Tail(s))

utf8_char(c) ==
    IF c = "U+00C9" THEN <<"0xC3", "0x89">>
    ELSE IF c = "U+00E9" THEN <<"0xC3", "0xA9">>
    ELSE IF c = "U+0130" THEN <<"0xC4", "0xB0">>
    ELSE IF c = "U+0307" THEN <<"0xCC", "0x87">>
    ELSE <<c>>

RECURSIVE encode_utf8(_)
encode_utf8(s) == IF s = <<>> THEN <<>> ELSE utf8_char(Head(s)) \o encode_utf8(Tail(s))

RECURSIVE lstrip(_)
lstrip(s) == IF s # <<>> /\ isspace(Head(s)) THEN lstrip(Tail(s)) ELSE s

RECURSIVE rstrip(_)
rstrip(s) == IF s # <<>> /\ isspace(s[Len(s)]) THEN rstrip(SubSeq(s, 1, Len(s) - 1)) ELSE s

strip(s) == rstrip(lstrip(s))

RECURSIVE word_len(_)
word_len(s) == IF s = <<>> \/ isspace(Head(s)) THEN 0 ELSE 1 + word_len(Tail(s))

\* str.split() with no separator: the maximal runs of non-whitespace.
RECURSIVE split(_)
split(s) ==
    LET t == lstrip(s)
        n == word_len(t)
    IN IF t = <<>> THEN <<>> ELSE <<SubSeq(t, 1, n)>> \o split(SubSeq(t, n + 1, Len(t)))

\* "".join(filter(str.isalpha, word))
filter_isalpha(word) == SelectSeq(word, isalpha)

\* Faulty variant of extract_clean_word: split()[0] forgotten, the letters of
\* every segment are kept.
extract_clean_word_all_segments(raw) ==
    IF strip(raw) # <<>> THEN filter_isalpha(strip(raw)) ELSE <<>>

\* audio.py 100-103: the first whitespace-delimited word, letters only.
extract_clean_word(raw) ==
    IF strip(raw) # <<>> THEN filter_isalpha(split(strip(raw))[1]) ELSE <<>>

\* audio.py 103, 108: the token as it is printed and sent, the cleaned word
\* lower-cased
extract_token(raw) == lower(extract_clean_word(raw))

\* Faulty variant of data_to_send: .lower() forgotten.
data_to_send_as_recognized(word) == encode_utf8(word \o <<"\n">>)

\* audio.py 108: (clean_word.lower() + '\n').encode('utf-8')
data_to_send(word) == encode_utf8(lower(word) \o <<"\n">>)

----------------------------------------------------------------------------
(* ROI geometry, audio.py 73-77.  int(n * 0.8) and int(n * 0.3) are computed
   in binary floating point and truncated; for every n from 1 to 2,000,000
   the result equals the exact integer quotient used here. *)

roi_width_of(frame_width) == (frame_width * 8) \div 10
roi_height_of(frame_height) == (frame_height * 3) \div 10
\* Faulty variant of roi_x_of: the parentheses around the difference forgotten.
roi_x_of_unparenthesized(frame_width) == frame_width - (roi_width_of(frame_width) \div 2)

roi_x_of(frame_width) == (frame_width - roi_width_of(frame_width)) \div 2
roi_y_of(frame_height) == (frame_height - roi_height_of(frame_height)) \div 2

compute_roi(frame_width, frame_height) ==
    [x |-> roi_x_of(frame_width), y |-> roi_y_of(frame_height),
     width |-> roi_width_of(frame_width), height |-> roi_height_of(frame_height)]

\* frame[roi_y:roi_y + roi_height, roi_x:roi_x + roi_width] has no pixels
crop_is_empty(r) == r.width = 0 \/ r.height = 0

----------------------------------------------------------------------------
(* Inputs *)

SeqsUpTo(A, n) == UNION {[1..k -> A] : k \in 0..n}

Text_DOOR == <<"D","O","O","R","\n">>
Text_HelloWorld == <<"H","e","l","l","o"," ","W","o","r","l","d">>
Text_c4t_sat == <<" "," ","c","4","t","!"," ","s","a","t">>
Text_123 == <<"1","2","3">>
Text_123_cat == <<"1","2","3"," ","c","a","t">>
Text_Cafe == <<"C","a","f","U+00E9","\n">>
Text_blank == <<" "," ","\n">>
Text_Idot == <<"U+0130","Z","\n">>

\* what the recognizer returns during a session
OcrTexts == {<<>>, Text_blank, Text_DOOR, Text_c4t_sat, Text_123_cat, Text_Cafe}

\* raw texts enumerated for the token extraction on its own
TextAlphabet == {"a", "Z", "4", "!", " ", "\n", "U+00C9"}
RawTexts == SeqsUpTo(TextAlphabet, MaxTextLen)
              \cup {Text_DOOR, Text_HelloWorld, Text_c4t_sat, Text_123, Text_123_cat, Text_Cafe,
                    Text_Idot}

\* frame.shape as (width, height): the requested 640x480, degenerate and tiny frames
SessionShapes == {<<FRAME_WIDTH, FRAME_HEIGHT>>, <<1, FRAME_HEIGHT>>, <<FRAME_WIDTH, 3>>, <<5, 4>>}
AllShapes == ((1..MaxDim) \X (1..MaxDim)) \cup {<<FRAME_WIDTH, FRAME_HEIGHT>>}

\* sys.argv[1:]: absent, integers as int() reads them, not integers
Arg_1 == <<"1">>
Arg_12 == <<"1", "2">>
Arg_minus1 == <<"-", "1">>
Arg_padded2 == <<" ", "2", " ">>
Arg_abc == <<"a", "b", "c">>
Arg_1point5 == <<"1", ".", "5">>
Argvs == {<<>>, <<Arg_1>>, <<Arg_12>>, <<Arg_minus1>>, <<Arg_padded2>>, <<Arg_abc>>,
          <<Arg_1point5>>, <<Arg_12, Arg_abc>>}

Keys == {SPACE_KEY, QUIT_KEY, NO_KEY, 97}

NoFrame == [id |-> 0, width |-> 0, height |-> 0, overlay |-> FALSE]
NoRoi == [x |-> 0, y |-> 0, width |-> 0, height |-> 0]
NoCrop == [id |-> 0, overlay |-> FALSE]

\* cam.py before its first statement
CamStart ==
    [pc |-> "camera_init", camera_index |-> 0, cap_isOpened |-> FALSE, ret |-> FALSE,
     frame |-> NoFrame, roi |-> NoRoi, key |-> NO_KEY, text |-> <<>>,
     cleaned_text |-> <<>>, exc |-> "None", reads |-> 0, previews |-> 0]

----------------------------------------------------------------------------
(* The script *)

Init ==
    /\ pc = "serial_init"
    /\ ser = "None"
    /\ ser_is_open = FALSE
    /\ ser_log = <<>>
    /\ camera_index = 0
    /\ cap_isOpened = FALSE
    /\ ret = FALSE
    /\ frame = NoFrame
    /\ roi = NoRoi
    /\ key = NO_KEY
    /\ text = <<>>
    /\ clean_word = <<>>
    /\ exc = "None"
    /\ reads = 0
    /\ previews = 0
    /\ argv \in Argvs
    /\ roi_frame = NoCrop
    /\ cam = CamStart

\* Faulty variant of SerialInit: the script exits when the port does not open.
SerialInit_ExitsOnFailure ==
    /\ pc = "serial_init"
    /\ \E opened \in BOOLEAN :
          /\ ser' = IF opened THEN "Serial" ELSE "None"
          /\ ser_is_open' = opened
          /\ pc' = IF opened THEN "camera_init" ELSE "exited"
    /\ UNCHANGED <<ser_log, camera_index, cap_isOpened, ret, frame, roi, key,
                   text, clean_word, exc, reads, previews>>
    /\ UNCHANGED <<argv, roi_frame, cam>>

\* audio.py 21-33: open the serial port; SerialException is caught, ser stays None
SerialInit ==
    /\ pc = "serial_init"
    /\ \E opened \in BOOLEAN :
          /\ ser' = IF opened THEN "Serial" ELSE "None"
          /\ ser_is_open' = opened
    /\ pc' = "camera_init"
    /\ UNCHANGED <<ser_log, camera_index, cap_isOpened, ret, frame, roi, key,
                   text, clean_word, exc, reads, previews>>
    /\ UNCHANGED <<argv, roi_frame, cam>>

Digits == <<"0", "1", "2", "3", "4", "5", "6", "7", "8", "9">>

digit_value(c) == (CHOOSE i \in 1..10 : Digits[i] = c) - 1

RECURSIVE digits_value(_)
digits_value(ds) ==
    IF ds = <<>> THEN 0
    ELSE digits_value(SubSeq(ds, 1, Len(ds) - 1)) * 10 + digit_value(ds[Len(ds)])

\* the digits of int(arg): surrounding whitespace and one sign removed
int_body(arg) ==
    LET t == strip(arg)
    IN IF t # <<>> /\ Head(t) \in {"+", "-"} THEN Tail(t) ELSE t

\* int(arg) does not raise ValueError
int_parses(arg) ==
    /\ int_body(arg) # <<>>
    /\ \A i \in 1..Len(int_body(arg)) : int_body(arg)[i] \in Range(Digits)

int_value(arg) ==
    IF strip(arg)[1] = "-" THEN 0 - digits_value(int_body(arg)) ELSE digits_value(int_body(arg))

\* Faulty variant of parse_camera_index: the argument is tested with
\* str.isdigit() before int(), so a sign or padding falls back to 0.
parse_camera_index_isdigit(args) ==
    IF Len(args) > 0 /\ args[1] # <<>> /\ \A i \in 1..Len(args[1]) : args[1][i] \in Range(Digits)
    THEN digits_value(args[1])
    ELSE 0

\* audio.py 37-42: camera_index = 0, then int(sys.argv[1]) with ValueError caught
parse_camera_index(args) ==
    IF Len(args) > 0 /\ int_parses(args[1]) THEN int_value(args[1]) ELSE 0

\* audio.py 36-55: pick the index, open the camera; exit() when it is not opened
CameraInit ==
    /\ pc = "camera_init"
    /\ \E opened \in BOOLEAN :
          /\ camera_index' = parse_camera_index(argv)
          /\ cap_isOpened' = opened
          /\ IF opened
             THEN /\ pc' = "Idle"
                  /\ UNCHANGED <<ser_is_open, ser_log>>
             ELSE /\ pc' = "exited"
                  /\ IF ser = "Serial" /\ ser_is_open
                     THEN /\ ser_is_open' = FALSE
                          /\ ser_log' = Append(ser_log, [op |-> "close", data |-> <<>>])
                     ELSE UNCHANGED <<ser_is_open, ser_log>>
    /\ UNCHANGED <<ser, ret, frame, roi, key, text, clean_word, exc, reads, previews>>
    /\ UNCHANGED <<argv, roi_frame, cam>>

\* Faulty variant of ReadFrameFrom: the rectangle is drawn on a copy made for
\* display, the frame that is cropped later stays unmarked.
ReadFrameFrom_OverlayOnCopy(shapes) ==
    /\ pc = "Idle"
    /\ reads < MaxReads
    /\ reads' = reads + 1
    /\ \E ok \in BOOLEAN :
          /\ ret' = ok
          /\ IF ok
             THEN \E shape \in shapes :
                    /\ frame' = [id |-> reads + 1, width |-> shape[1],
                                 height |-> shape[2], overlay |-> FALSE]
                    /\ roi' = compute_roi(shape[1], shape[2])
                    /\ previews' = previews + 1
                    /\ pc' = "Previewing"
             ELSE /\ pc' = "Terminating"
                  /\ UNCHANGED <<frame, roi, previews>>
    /\ UNCHANGED <<ser, ser_is_open, ser_log, camera_index, cap_isOpened, key,
                   text, clean_word, exc>>
    /\ UNCHANGED <<argv, roi_frame, cam>>

\* audio.py 67-80: read a frame; on failure break, else compute the ROI,
\* draw it on the frame and show the frame
ReadFrameFrom(shapes) ==
    /\ pc = "Idle"
    /\ reads < MaxReads
    /\ reads' = reads + 1
    /\ \E ok \in BOOLEAN :
          /\ ret' = ok
          /\ IF ok
             THEN \E shape \in shapes :
                    /\ frame' = [id |-> reads + 1, width |-> shape[1],
                                 height |-> shape[2], overlay |-> TRUE]
                    /\ roi' = compute_roi(shape[1], shape[2])
                    /\ previews' = previews + 1
                    /\ pc' = "Previewing"
             ELSE /\ pc' = "Terminating"
                  /\ UNCHANGED <<frame, roi, previews>>
    /\ UNCHANGED <<ser, ser_is_open, ser_log, camera_index, cap_isOpened, key,
                   text, clean_word, exc>>
    /\ UNCHANGED <<argv, roi_frame, cam>>

ReadFrame == ReadFrameFrom(SessionShapes)

\* audio.py 82-86: the key is the spacebar
KeyCapture ==
    /\ pc = "Previewing"
    /\ key' = SPACE_KEY
    /\ pc' = "Capturing"
    /\ UNCHANGED <<ser, ser_is_open, ser_log, camera_index, cap_isOpened, ret,
                   frame, roi, text, clean_word, exc, reads, previews>>
    /\ UNCHANGED <<argv, roi_frame, cam>>

\* Faulty variant of KeyQuit: q is seen but the loop is not left.
KeyQuit_KeepsLooping ==
    /\ pc = "Previewing"
    /\ key' = QUIT_KEY
    /\ pc' = "Idle"
    /\ UNCHANGED <<ser, ser_is_open, ser_log, camera_index, cap_isOpened, ret,
                   frame, roi, text, clean_word, exc, reads, previews>>
    /\ UNCHANGED <<argv, roi_frame, cam>>

\* audio.py 82, 123-124: the key is q
KeyQuit ==
    /\ pc = "Previewing"
    /\ key' = QUIT_KEY
    /\ pc' = "Terminating"
    /\ UNCHANGED <<ser, ser_is_open, ser_log, camera_index, cap_isOpened, ret,
                   frame, roi, text, clean_word, exc, reads, previews>>
    /\ UNCHANGED <<argv, roi_frame, cam>>

\* Faulty variant of KeyOther: any key other than q starts a capture.
KeyOther_Captures ==
    /\ pc = "Previewing"
    /\ \E k \in Keys \ {SPACE_KEY, QUIT_KEY} : key' = k
    /\ pc' = "Capturing"
    /\ UNCHANGED <<ser, ser_is_open, ser_log, camera_index, cap_isOpened, ret,
                   frame, roi, text, clean_word, exc, reads, previews>>
    /\ UNCHANGED <<argv, roi_frame, cam>>

\* audio.py 82, 85, 123: no key or any other key, next iteration
KeyOther ==
    /\ pc = "Previewing"
    /\ \E k \in Keys \ {SPACE_KEY, QUIT_KEY} : key' = k
    /\ pc' = "Idle"
    /\ UNCHANGED <<ser, ser_is_open, ser_log, camera_index, cap_isOpened, ret,
                   frame, roi, text, clean_word, exc, reads, previews>>
    /\ UNCHANGED <<argv, roi_frame, cam>>

\* audio.py 88-92: crop to the ROI, grayscale, threshold; cv2.cvtColor raises
\* cv2.error on an empty image and nothing catches it
CropPreprocess ==
    /\ pc = "Capturing"
    /\ roi_frame' = [id |-> frame.id, overlay |-> frame.overlay]
    /\ IF crop_is_empty(roi)
       THEN /\ exc' = "cv2.error"
            /\ pc' = "crashed"
       ELSE /\ pc' = "ocr"
            /\ UNCHANGED exc
    /\ UNCHANGED <<ser, ser_is_open, ser_log, camera_index, cap_isOpened, ret,
                   frame, roi, key, text, clean_word, reads, previews>>
    /\ UNCHANGED <<argv, cam>>

\* audio.py 96-103: recognize, then clean to the first alphabetic word
RecognizeFrom(texts) ==
    /\ pc = "ocr"
    /\ \E raw \in texts :
          /\ text' = raw
          /\ clean_word' = extract_clean_word(raw)
    /\ pc' = "dispatch"
    /\ UNCHANGED <<ser, ser_is_open, ser_log, camera_index, cap_isOpened, ret,
                   frame, roi, key, exc, reads, previews>>
    /\ UNCHANGED <<argv, roi_frame, cam>>

Recognize == RecognizeFrom(OcrTexts)

\* Faulty variant of serial_available: the port is taken to be open without
\* looking at ser.
serial_available_assumed == TRUE

\* audio.py 106: clean_word and ser and ser.is_open
serial_available == ser = "Serial" /\ ser_is_open

\* Faulty variant of Dispatch: the test of clean_word forgotten, the port is
\* written whenever it is open.
Dispatch_IgnoresEmptyWord ==
    /\ pc = "dispatch"
    /\ IF serial_available
       THEN /\ ser_log' = Append(ser_log, [op |-> "write", data |-> data_to_send(clean_word)])
            /\ \E written \in BOOLEAN :
                  IF written
                  THEN /\ pc' = "Idle"
                       /\ UNCHANGED exc
                  ELSE /\ pc' = "crashed"
                       /\ exc' = "SerialException"
       ELSE /\ pc' = "Idle"
            /\ UNCHANGED <<ser_log, exc>>
    /\ UNCHANGED <<ser, ser_is_open, camera_index, cap_isOpened, ret, frame, roi,
                   key, text, clean_word, reads, previews>>
    /\ UNCHANGED <<argv, roi_frame, cam>>

\* audio.py 106-120: send the word when there is one and the port is open;
\* ser.write may raise SerialException and nothing catches it
Dispatch ==
    /\ pc = "dispatch"
    /\ IF clean_word # <<>> /\ serial_available
       THEN /\ ser_log' = Append(ser_log, [op |-> "write", data |-> data_to_send(clean_word)])
            /\ \E written \in BOOLEAN :
                  IF written
                  THEN /\ pc' = "Idle"
                       /\ UNCHANGED exc
                  ELSE /\ pc' = "crashed"
                       /\ exc' = "SerialException"
       ELSE /\ pc' = "Idle"
            /\ UNCHANGED <<ser_log, exc>>
    /\ UNCHANGED <<ser, ser_is_open, camera_index, cap_isOpened, ret, frame, roi,
                   key, text, clean_word, reads, previews>>
    /\ UNCHANGED <<argv, roi_frame, cam>>

\* Faulty variant of Cleanup: the serial port is never closed.
Cleanup_LeavesSerialOpen ==
    /\ pc = "Terminating"
    /\ cap_isOpened' = FALSE
    /\ pc' = "done"
    /\ UNCHANGED <<ser, ser_is_open, ser_log, camera_index, ret, frame, roi, key,
                   text, clean_word, exc, reads, previews>>
    /\ UNCHANGED <<argv, roi_frame, cam>>

\* audio.py 127-133: close the serial port when open, release the camera
Cleanup ==
    /\ pc = "Terminating"
    /\ IF ser = "Serial" /\ ser_is_open
       THEN /\ ser_is_open' = FALSE
            /\ ser_log' = Append(ser_log, [op |-> "close", data |-> <<>>])
       ELSE UNCHANGED <<ser_is_open, ser_log>>
    /\ cap_isOpened' = FALSE
    /\ pc' = "done"
    /\ UNCHANGED <<ser, camera_index, ret, frame, roi, key, text, clean_word,
                   exc, reads, previews>>
    /\ UNCHANGED <<argv, roi_frame, cam>>

Next ==
    \/ SerialInit
    \/ CameraInit
    \/ ReadFrame
    \/ KeyCapture
    \/ KeyQuit
    \/ KeyOther
    \/ CropPreprocess
    \/ Recognize
    \/ Dispatch
    \/ Cleanup

Spec == Init /\ [][Next]_vars

----------------------------------------------------------------------------
(* Token extraction on its own: a capture that has reached the recognizer,
   which may return any raw text of RawTexts. *)

InitToken ==
    /\ pc = "ocr"
    /\ ser \in {"None", "Serial"}
    /\ ser_is_open = (ser = "Serial")
    /\ ser_log = <<>>
    /\ camera_index = 0
    /\ cap_isOpened = TRUE
    /\ ret = TRUE
    /\ frame = [id |-> 1, width |-> FRAME_WIDTH, height |-> FRAME_HEIGHT, overlay |-> TRUE]
    /\ roi = compute_roi(FRAME_WIDTH, FRAME_HEIGHT)
    /\ key = SPACE_KEY
    /\ text = <<>>
    /\ clean_word = <<>>
    /\ exc = "None"
    /\ reads = 1
    /\ previews = 1
    /\ argv = <<>>
    /\ roi_frame = [id |-> 1, overlay |-> TRUE]
    /\ cam = CamStart

ExtractToken == RecognizeFrom(RawTexts)

NextToken == ExtractToken \/ Dispatch

SpecToken == InitToken /\ [][NextToken]_vars

(* ROI computation on its own: the loop reads one frame of any shape of
   AllShapes. *)

InitROI ==
    /\ pc = "Idle"
    /\ ser = "None"
    /\ ser_is_open = FALSE
    /\ ser_log = <<>>
    /\ camera_index = 0
    /\ cap_isOpened = TRUE
    /\ ret = FALSE
    /\ frame = NoFrame
    /\ roi = NoRoi
    /\ key = NO_KEY
    /\ text = <<>>
    /\ clean_word = <<>>
    /\ exc = "None"
    /\ reads = 0
    /\ previews = 0
    /\ argv = <<>>
    /\ roi_frame = NoCrop
    /\ cam = CamStart

ReadAnyFrame == ReadFrameFrom(AllShapes)

NextROI == ReadAnyFrame \/ KeyOther

SpecROI == InitROI /\ [][NextROI]_vars

----------------------------------------------------------------------------
(* The OCR-only script src/cam.py.  Its state is the record cam; each step
   takes the input it consumes as a parameter. *)

audio_vars == <<pc, ser, ser_is_open, ser_log, camera_index, cap_isOpened, ret,
                frame, roi, key, text, clean_word, exc, reads, previews, argv,
                roi_frame>>

\* cam.py 15-32: pick the index, open the camera; return when it is not opened
CamCameraInit(opened) ==
    /\ cam.pc = "camera_init"
    /\ cam' = [cam EXCEPT !.camera_index = parse_camera_index(argv),
                          !.cap_isOpened = opened,
                          !.pc = IF opened THEN "Idle" ELSE "returned"]
    /\ UNCHANGED audio_vars

\* cam.py 47-62: read a frame; on failure break, else compute the ROI, draw
\* it on the frame and show the frame
CamReadFrame(ok, shape) ==
    /\ cam.pc = "Idle"
    /\ cam.reads < MaxReads
    /\ cam' = IF ok
              THEN [cam EXCEPT !.reads = cam.reads + 1,
                               !.ret = TRUE,
                               !.frame = [id |-> cam.reads + 1, width |-> shape[1],
                                          height |-> shape[2], overlay |-> TRUE],
                               !.roi = compute_roi(shape[1], shape[2]),
                               !.previews = cam.previews + 1,
                               !.pc = "Previewing"]
              ELSE [cam EXCEPT !.reads = cam.reads + 1,
                               !.ret = FALSE,
                               !.pc = "Terminating"]
    /\ UNCHANGED audio_vars

\* cam.py 64-68: the key is the spacebar
CamKeyCapture ==
    /\ cam.pc = "Previewing"
    /\ cam' = [cam EXCEPT !.key = SPACE_KEY, !.pc = "Capturing"]
    /\ UNCHANGED audio_vars

\* cam.py 64, 94-96: the key is q
CamKeyQuit ==
    /\ cam.pc = "Previewing"
    /\ cam' = [cam EXCEPT !.key = QUIT_KEY, !.pc = "Terminating"]
    /\ UNCHANGED audio_vars

\* cam.py 64, 67, 94: no key or any other key, next iteration
CamKeyOther(k) ==
    /\ cam.pc = "Previewing"
    /\ k \in Keys \ {SPACE_KEY, QUIT_KEY}
    /\ cam' = [cam EXCEPT !.key = k, !.pc = "Idle"]
    /\ UNCHANGED audio_vars

\* cam.py 70-77: crop to the ROI, grayscale, threshold; cv2.cvtColor raises
\* cv2.error on an empty image and nothing catches it
CamCropPreprocess ==
    /\ cam.pc = "Capturing"
    /\ cam' = IF crop_is_empty(cam.roi)
              THEN [cam EXCEPT !.exc = "cv2.error", !.pc = "crashed"]
              ELSE [cam EXCEPT !.pc = "ocr"]
    /\ UNCHANGED audio_vars

\* cam.py 81: recognize
CamRecognize(raw) ==
    /\ cam.pc = "ocr"
    /\ cam' = [cam EXCEPT !.text = raw, !.pc = "report"]
    /\ UNCHANGED audio_vars

\* Faulty variant of CamReport: the loop is left after the first capture.
CamReport_LeavesLoop ==
    /\ cam.pc = "report"
    /\ cam' = [cam EXCEPT !.cleaned_text = strip(cam.text), !.pc = "Terminating"]
    /\ UNCHANGED audio_vars

\* cam.py 83-91: strip the text, print it, show the analyzed image
CamReport ==
    /\ cam.pc = "report"
    /\ cam' = [cam EXCEPT !.cleaned_text = strip(cam.text), !.pc = "Idle"]
    /\ UNCHANGED audio_vars

\* cam.py 99-102: release the camera
CamCleanup ==
    /\ cam.pc = "Terminating"
    /\ cam' = [cam EXCEPT !.cap_isOpened = FALSE, !.pc = "done"]
    /\ UNCHANGED audio_vars

(* Both scripts on the same inputs, audio.py with its serial port not opened:
   audio.py takes a step, then cam.py takes its step on the input audio.py
   has just consumed (the camera-open result, the read result and frame
   shape, the key, the recognized text). *)

\* the position of cam.py that corresponds to a position of audio.py
CamPcOf(p) ==
    IF p = "serial_init" THEN "camera_init"
    ELSE IF p = "dispatch" THEN "report"
    ELSE IF p = "exited" THEN "returned"
    ELSE p

InStep == cam.pc = CamPcOf(pc) /\ cam.reads = reads

PairSerialInit == InStep /\ SerialInit /\ ser' = "None"
PairCameraInit == InStep /\ CameraInit
PairReadFrame == InStep /\ ReadFrame
PairKeyCapture == InStep /\ KeyCapture
PairKeyQuit == InStep /\ KeyQuit
PairKeyOther == InStep /\ KeyOther
PairCropPreprocess == InStep /\ CropPreprocess
PairRecognize == InStep /\ Recognize
PairDispatch == InStep /\ Dispatch
PairCleanup == InStep /\ Cleanup

\* the step of cam.py on the input audio.py has just consumed
CamNext ==
    \/ CamCameraInit(cap_isOpened)
    \/ CamReadFrame(ret, <<frame.width, frame.height>>)
    \/ key = SPACE_KEY /\ CamKeyCapture
    \/ key = QUIT_KEY /\ CamKeyQuit
    \/ CamKeyOther(key)
    \/ CamCropPreprocess
    \/ CamRecognize(text)
    \/ CamReport
    \/ CamCleanup

PairCamCameraInit == ~InStep /\ CamCameraInit(cap_isOpened)
PairCamReadFrame == ~InStep /\ CamReadFrame(ret, <<frame.width, frame.height>>)
PairCamKeyCapture == ~InStep /\ key = SPACE_KEY /\ CamKeyCapture
PairCamKeyQuit == ~InStep /\ key = QUIT_KEY /\ CamKeyQuit
PairCamKeyOther == ~InStep /\ CamKeyOther(key)
PairCamCropPreprocess == ~InStep /\ CamCropPreprocess
PairCamRecognize == ~InStep /\ CamRecognize(text)
PairCamReport == ~InStep /\ CamReport
PairCamCleanup == ~InStep /\ CamCleanup

NextPair ==
    \/ PairSerialInit
    \/ PairCameraInit
    \/ PairReadFrame
    \/ PairKeyCapture
    \/ PairKeyQuit
    \/ PairKeyOther
    \/ PairCropPreprocess
    \/ PairRecognize
    \/ PairDispatch
    \/ PairCleanup
    \/ PairCamCameraInit
    \/ PairCamReadFrame
    \/ PairCamKeyCapture
    \/ PairCamKeyQuit
    \/ PairCamKeyOther
    \/ PairCamCropPreprocess
    \/ PairCamRecognize
    \/ PairCamReport
    \/ PairCamCleanup

SpecPair == Init /\ [][NextPair]_vars

----------------------------------------------------------------------------
(* Vocabulary of the properties *)

IsLowerAsciiWord(s) == \A i \in 1..Len(s) : s[i] \in Range(AsciiLower)

\* the lower-case form of the letter d: one character, or two for U+0130
LowerFormOf(d) ==
    IF \E i \in 1..26 : d \in {AsciiLower[i], AsciiUpper[i]}
    THEN <<AsciiLower[CHOOSE i \in 1..26 : d \in {AsciiLower[i], AsciiUpper[i]}]>>
    ELSE IF d \in {"U+00C9", "U+00E9"} THEN <<"U+00E9">>
    ELSE IF d = "U+0130" THEN <<"i", "U+0307">>
    ELSE <<d>>

RECURSIVE Concat(_)
Concat(ss) == IF ss = <<>> THEN <<>> ELSE Head(ss) \o Concat(Tail(ss))

\* index i of t lies in the first whitespace-delimited segment of t: t[i] is
\* not whitespace and every whitespace before it is leading whitespace
InFirstSegment(t, i) ==
    /\ i \in 1..Len(t)
    /\ ~isspace(t[i])
    /\ \A j \in 1..(i - 1) : isspace(t[j]) => \A k \in 1..j : isspace(t[k])

FirstSegmentLetters(t) == {i \in 1..Len(t) : InFirstSegment(t, i) /\ isalpha(t[i])}

\* tok is the first segment of t with its non-letters dropped and its letters lowered
IsTokenOf(tok, t) ==
    LET L == FirstSegmentLetters(t)
        nth(k) == CHOOSE i \in L : Cardinality({j \in L : j <= i}) = k
    IN tok = Concat([k \in 1..Cardinality(L) |-> LowerFormOf(t[nth(k)])])

WriteCount == Cardinality({i \in 1..Len(ser_log) : ser_log[i].op = "write"})
CloseCount == Cardinality({i \in 1..Len(ser_log) : ser_log[i].op = "close"})

----------------------------------------------------------------------------
(* C1: the token of every capture (the cleaned word as it is printed and
   sent, lower-cased), and the word inside every payload written to the
   serial port, is empty or made only of the letters a-z. *)
C1_TokenIsLowerAscii ==
    /\ IsLowerAsciiWord(lower(clean_word))
    /\ \A i \in 1..Len(ser_log) :
          ser_log[i].op = "write" =>
             IsLowerAsciiWord(SubSeq(ser_log[i].data, 1, Len(ser_log[i].data) - 1))

(* C2: the dispatch step of a capture whose raw text has no letter in its
   first segment (empty and whitespace-only texts included) makes no call on
   the serial port, whether or not the port is open. *)
C2_EmptyTokenNoWrite ==
    [][(pc = "dispatch" /\ FirstSegmentLetters(text) = {}) => ser_log' = ser_log]_vars

C2_Witness ==
    /\ pc = "Idle"
    /\ key = SPACE_KEY
    /\ text = Text_123_cat
    /\ ser = "Serial" /\ ser_is_open
    /\ ser_log = <<>>

(* C3: a serial write that raises does not end the session: the script is
   never left through a SerialException. *)
C3_WriteFailureContained == ~(pc = "crashed" /\ exc = "SerialException")

(* C4: whenever the run has ended, by any path, the camera handle and the
   serial connection are released. *)
C4_ReleasedOnEveryExit ==
    pc \in {"done", "exited", "crashed"} => ~cap_isOpened /\ ~ser_is_open

(* C5: a capture on a zero-area ROI crop does not end the session: the
   script is never left through the cv2.error of the preprocessing. *)
C5_DegenerateCropRecoverable == ~(pc = "crashed" /\ exc = "cv2.error")

(* C6: when the loop has ended on a failed frame read, the failed read was
   the Nth and exactly N-1 previews were shown; a failed read leads straight
   to Terminating; once there, no frame is read and nothing is shown again;
   and when the run is done the serial port has been closed exactly once if
   it was opened, and never otherwise. *)
C6_EndOfStream ==
    /\ []((pc \in {"Terminating", "done"} /\ ~ret) =>
            (/\ previews = reads - 1
             /\ (pc = "Terminating" => CloseCount = 0)
             /\ (pc = "done" => CloseCount = (IF ser = "Serial" THEN 1 ELSE 0))
             /\ (pc = "done" => ~ser_is_open)))
    /\ [][(reads' = reads + 1 /\ ~ret') => pc' = "Terminating"]_vars
    /\ [][(pc \in {"Terminating", "done"}) =>
            (reads' = reads /\ previews' = previews /\ pc' \in {"Terminating", "done"})]_vars

C6_Witness ==
    /\ pc = "done"
    /\ ~ret
    /\ reads = 3
    /\ previews = 2
    /\ ser = "Serial"
    /\ CloseCount = 1

(* C7: for every frame of positive width w and height h, the ROI has
   width = floor(0.8 w), height = floor(0.3 h), x = floor((w - width)/2),
   y = floor((h - height)/2) and lies inside the frame; a 640x480 frame
   gives (64, 168, 512, 144). *)
C7_RegionInsideFrame ==
    pc = "Previewing" =>
       LET w == frame.width
           h == frame.height
       IN /\ 10 * roi.width <= 8 * w /\ 8 * w < 10 * (roi.width + 1)
          /\ 10 * roi.height <= 3 * h /\ 3 * h < 10 * (roi.height + 1)
          /\ 2 * roi.x <= w - roi.width /\ w - roi.width < 2 * (roi.x + 1)
          /\ 2 * roi.y <= h - roi.height /\ h - roi.height < 2 * (roi.y + 1)
          /\ 0 <= roi.x /\ 0 <= roi.y
          /\ roi.x + roi.width <= w /\ roi.y + roi.height <= h
          /\ ((w = 640 /\ h = 480) =>
                roi = [x |-> 64, y |-> 168, width |-> 512, height |-> 144])

C7_Witness ==
    /\ pc = "Previewing"
    /\ frame.width = 640 /\ frame.height = 480
    /\ roi = [x |-> 64, y |-> 168, width |-> 512, height |-> 144]

\* the bytes of the lower-cased word followed by one newline
IsPayloadOf(data, word) ==
    data = encode_utf8(Concat([i \in 1..Len(word) |-> LowerFormOf(word[i])])) \o <<"\n">>

(* C8: the dispatch step of a capture with a non-empty token and an open
   serial port makes exactly one call on the port, a write of the
   lower-cased token followed by one newline ("DOOR\n" gives "door\n"), and
   no read. *)
C8_OneWriteOfTokenNewline ==
    [][(pc = "dispatch" /\ clean_word # <<>> /\ ser = "Serial" /\ ser_is_open) =>
          (/\ Len(ser_log') = Len(ser_log) + 1
           /\ SubSeq(ser_log', 1, Len(ser_log)) = ser_log
           /\ ser_log'[Len(ser_log')].op = "write"
           /\ IsPayloadOf(ser_log'[Len(ser_log')].data, clean_word)
           /\ (text = Text_DOOR =>
                 ser_log'[Len(ser_log')].data = <<"d", "o", "o", "r", "\n">>))]_vars

C8_Witness ==
    /\ pc = "Idle"
    /\ key = SPACE_KEY
    /\ text = Text_DOOR
    /\ ser_log = <<[op |-> "write", data |-> <<"d", "o", "o", "r", "\n">>]>>

(* C9: when the serial port does not open at startup the script goes on to
   the camera initialization with ser left None, and from then on no call
   is ever made on the serial port while captures are still recognized. *)
C9_SerialOpenFailureContinues ==
    /\ []((ser = "None" /\ pc # "serial_init") => (ser_log = <<>> /\ ~ser_is_open))
    /\ [][(pc = "serial_init") => (pc' = "camera_init")]_vars

C9_Witness ==
    /\ ser = "None"
    /\ pc = "Idle"
    /\ key = SPACE_KEY
    /\ reads = 2
    /\ text = Text_DOOR
    /\ clean_word = <<"D", "O", "O", "R">>
    /\ ser_log = <<>>

(* C10: the token (the cleaned word, lower-cased) is the first
   whitespace-delimited segment of the raw text with every non-letter
   dropped and every letter lower-cased; it is empty when the text has no
   segment or the first segment has no letter, whatever follows. *)
C10_FirstSegmentOnly ==
    pc = "dispatch" =>
       /\ IsTokenOf(lower(clean_word), text)
       /\ (text = Text_HelloWorld => lower(clean_word) = <<"h", "e", "l", "l", "o">>)
       /\ (text = Text_c4t_sat => lower(clean_word) = <<"c", "t">>)
       /\ (text = Text_123 => lower(clean_word) = <<>>)
       /\ (text = Text_123_cat => lower(clean_word) = <<>>)
       /\ ((\A i \in 1..Len(text) : isspace(text[i])) => lower(clean_word) = <<>>)

C10_Witness ==
    /\ pc = "dispatch"
    /\ text = Text_c4t_sat
    /\ clean_word = <<"c", "t">>

(* C11: availability of the serial port is looked at in every capture: the
   dispatch step of a capture with a non-empty token while the port is
   unavailable (ser is None, or the port is not open) makes no call on the
   port, raises nothing and returns the loop to Idle. *)
C11_UnavailableSinkSkipped ==
    [][(pc = "dispatch" /\ clean_word # <<>> /\ ~(ser = "Serial" /\ ser_is_open)) =>
          (ser_log' = ser_log /\ pc' = "Idle" /\ exc' = "None")]_vars

C11_Witness ==
    /\ pc = "Idle"
    /\ key = SPACE_KEY
    /\ ser = "None"
    /\ text = Text_c4t_sat
    /\ clean_word = <<"c", "t">>
    /\ ser_log = <<>>
    /\ exc = "None"

\* the positions of a capture in progress
InCapture == pc \in {"Capturing", "ocr", "dispatch"}

(* C12: a quit key seen at the key check leads straight to Terminating, and
   from there no frame is read, no text is recognized and nothing is written
   to the serial port.  The key is checked nowhere but at Previewing: a
   capture in progress only moves forward through crop, recognition and
   dispatch (or is left by an exception), and the loop reaches Terminating
   only from the key check or from a failed read. *)
C12_QuitEndsLoopCaptureRunsThrough ==
    /\ [][(pc = "Previewing" /\ key' = QUIT_KEY) => pc' = "Terminating"]_vars
    /\ [][(pc \in {"Terminating", "done"}) =>
            (/\ reads' = reads /\ previews' = previews
             /\ text' = text /\ clean_word' = clean_word
             /\ WriteCount' = WriteCount
             /\ pc' \in {"Terminating", "done"})]_vars
    /\ [][InCapture =>
            (/\ key' = key
             /\ (pc = "Capturing" => pc' \in {"ocr", "crashed"})
             /\ (pc = "ocr" => pc' = "dispatch")
             /\ (pc = "dispatch" => pc' \in {"Idle", "crashed"}))]_vars
    /\ [][(pc' = "Terminating" /\ pc # "Terminating") =>
            (\/ pc = "Previewing" /\ key' = QUIT_KEY
             \/ pc = "Idle" /\ ~ret')]_vars

C12_Witness ==
    /\ pc = "done"
    /\ key = QUIT_KEY
    /\ ret
    /\ reads = 2
    /\ text = Text_DOOR
    /\ WriteCount = 1

(* C16: an iteration whose key is neither the spacebar nor q returns to Idle
   and changes nothing but the key: no recognition, no call on the serial
   port, the serial and camera handles untouched.  The spacebar and q
   exclude each other: the step from the key check starts a capture exactly
   when the key is the spacebar and leaves the loop exactly when it is q. *)
C16_OtherKeyChangesNothing ==
    /\ [][(pc = "Previewing" /\ key' \notin {SPACE_KEY, QUIT_KEY}) =>
            (/\ pc' = "Idle"
             /\ UNCHANGED <<ser, ser_is_open, ser_log, camera_index, cap_isOpened,
                            ret, frame, roi, text, clean_word, exc, reads, previews,
                            argv, roi_frame>>)]_vars
    /\ [][(pc = "Previewing") =>
            (/\ (pc' = "Capturing" <=> key' = SPACE_KEY)
             /\ (pc' = "Terminating" <=> key' = QUIT_KEY))]_vars

C16_Witness ==
    /\ pc = "Idle"
    /\ key = NO_KEY
    /\ reads = 2
    /\ ret
    /\ ser = "Serial" /\ ser_is_open
    /\ ser_log = <<>>
    /\ text = <<>>

(* C13: the token extraction is idempotent: extracting a token from the
   token of any raw text gives that token again. *)
C13_ExtractionIdempotent ==
    pc = "dispatch" => extract_token(extract_token(text)) = extract_token(text)

\* the device index each enumerated command line asks for
ExpectedIndex(args) ==
    IF args = <<>> THEN 0
    ELSE IF args[1] = Arg_1 THEN 1
    ELSE IF args[1] = Arg_12 THEN 12
    ELSE IF args[1] = Arg_minus1 THEN 0 - 1
    ELSE IF args[1] = Arg_padded2 THEN 2
    ELSE 0

(* C14: the camera index is 0 without an argument, the value of the first
   argument when it reads as an integer, and 0 when it does not; in every
   case the camera-initialization step goes on to open the camera: it ends
   in the loop with the camera open or, the open having failed, at exit. *)
C14_CameraIndexFromArgument ==
    /\ []((pc \notin {"serial_init", "camera_init"}) => camera_index = ExpectedIndex(argv))
    /\ [][(pc = "camera_init") =>
            (/\ pc' \in {"Idle", "exited"}
             /\ (pc' = "Idle" <=> cap_isOpened'))]_vars

C14_Witness ==
    /\ argv = <<Arg_abc>>
    /\ camera_index = 0
    /\ pc = "Idle"
    /\ cap_isOpened

(* C15: the image handed to the recognizer is cut from the frame of the
   current iteration after the ROI rectangle was drawn on it: during
   recognition and dispatch the crop's source is the frame read last and
   carries the overlay. *)
C15_CropFromAnnotatedFrame ==
    /\ (pc \in {"Previewing", "Capturing"} => (frame.overlay /\ frame.id = reads))
    /\ (pc \in {"ocr", "dispatch"} =>
            (roi_frame.overlay /\ roi_frame.id = reads /\ roi_frame.id = frame.id))

C15_Witness ==
    /\ pc = "ocr"
    /\ reads = 2
    /\ roi_frame = [id |-> 2, overlay |-> TRUE]

\* the two scripts are at the same position with the same observable state
Agree ==
    /\ cam.pc = CamPcOf(pc)
    /\ cam.reads = reads
    /\ cam.previews = previews
    /\ cam.ret = ret
    /\ cam.frame = frame
    /\ cam.roi = roi
    /\ cam.key = key
    /\ cam.text = text
    /\ cam.exc = exc
    /\ cam.cap_isOpened = cap_isOpened
    /\ cam.camera_index = camera_index

(* C17: on the same camera-open result, read results, keys and recognizer
   outputs, cam.py and audio.py with its serial port unavailable stay
   together: each step of cam.py on the input audio.py has just consumed
   brings it to the position audio.py is at, with the same frame, ROI, key,
   recognized text, exception and counts of reads and previews; cam.py can
   always take that step; and the serial port is never written. *)
C17_VariantsEquivalent ==
    /\ [][(~InStep) => Agree']_vars
    /\ [](InStep => Agree)
    /\ []((~InStep) => ENABLED CamNext)
    /\ [](ser_log = <<>>)

C17_Witness ==
    /\ pc = "done"
    /\ cam.pc = "done"
    /\ reads = 2
    /\ key = QUIT_KEY
    /\ text = Text_DOOR
    /\ cam.text = Text_DOOR
    /\ cam.cleaned_text = <<"D", "O", "O", "R">>

====
